---- MODULE Spec2Model ----
(***************************************************************************)
(* Model of the CD4 square-root-transformation fitter:                     *)
(*   solver_simplex.py : get_sample_dist_values, obj_fcn, cd4_fitter       *)
(*   streamlit_app.py  : run_fitter                                        *)
(*                                                                         *)
(* float64 values are modelled in fixed point.  A finite value is          *)
(* <<"fin", n>> with n counted in units of 1/XScale; NaN and the two       *)
(* infinities are values of their own, with IEEE-754 arithmetic and        *)
(* comparisons (every comparison with NaN is false).  Probabilities are    *)
(* integers counted in units of 1/PScale.  The normal CDF is a strictly    *)
(* increasing table that saturates at 0 and 1 (as the float64 CDF does,    *)
(* further out) and the quantile function is the inverse of that table.    *)
(***************************************************************************)
EXTENDS Integers, Sequences, FiniteSets, TLC

\* ------------------------------------------------------------------- state

VARIABLES
    est,        \* the last direct call of get_sample_dist_values, with its trace
    objc,       \* the last direct call of obj_fcn
    pc,         \* run_fitter: "idle", "cd4_fitter", "minimize", "fitted", "done"
    target,     \* run_fitter's arguments <<mean, sd, upper>>
    guess,      \* cd4_fitter's initial_guess
    sim,        \* Nelder-Mead's simplex, best vertex first
    fsim,       \* the objective at each vertex
    iterations, \* Nelder-Mead's iteration count
    fcalls,     \* the number of objective evaluations
    xr,         \* the last step's evaluation at the reflected point
    x2,         \* the last step's evaluation at the expanded or contracted point
    xs,         \* the last step's evaluations at the initial or shrunk vertices
    branch,     \* what the last step of the search did
    fit,        \* how cd4_fitter ended: its return value or its exception
    ret,        \* what run_fitter returned
    first       \* the first call completed, and the number of calls since

vars == <<est, objc, pc, target, guess, sim, fsim, iterations, fcalls, xr, x2, xs,
          branch, fit, ret, first>>

\* ------------------------------------------------------------------ bounds

\* fixed-point units per 1.0 of a parameter, sample or moment
XScale == 16
\* the largest target mean / sd / upper limit tried, in whole numbers
MaxTarget == 4
\* Nelder-Mead's iteration and evaluation budgets (scipy: 200 * N each)
MaxIter == 12
MaxFun == 30

\* --------------------------------------------------------- float64 values

Fin(n) == <<"fin", n>>
NaN == <<"nan", 0>>
PosInf == <<"inf", 1>>
NegInf == <<"inf", -1>>
IsFin(x) == x[1] = "fin"
IsNaN(x) == x[1] = "nan"
IsInf(x) == x[1] = "inf"

FNeg(a) == IF IsNaN(a) THEN NaN ELSE <<a[1], -a[2]>>

FAdd(a, b) ==
    IF IsNaN(a) \/ IsNaN(b) THEN NaN
    ELSE IF IsFin(a) /\ IsFin(b) THEN Fin(a[2] + b[2])
    ELSE IF IsInf(a) /\ IsInf(b) THEN (IF a[2] = b[2] THEN a ELSE NaN)
    ELSE IF IsInf(a) THEN a ELSE b

FSub(a, b) == FAdd(a, FNeg(b))

FAbs(a) ==
    IF IsNaN(a) THEN NaN
    ELSE IF IsInf(a) THEN PosInf
    ELSE Fin(IF a[2] < 0 THEN -a[2] ELSE a[2])

\* a < b; false when either is NaN
FLt(a, b) ==
    /\ ~IsNaN(a)
    /\ ~IsNaN(b)
    /\ \/ IsFin(a) /\ IsFin(b) /\ a[2] < b[2]
       \/ IsInf(a) /\ a[2] < 0 /\ ~(IsInf(b) /\ b[2] < 0)
       \/ IsInf(b) /\ b[2] > 0 /\ ~(IsInf(a) /\ a[2] > 0)

\* a <= b; false when either is NaN
FLe(a, b) == ~IsNaN(a) /\ ~IsNaN(b) /\ ~FLt(b, a)

CeilDiv(a, b) == -((-a) \div b)

RECURSIVE IsqrtIn(_, _, _)
IsqrtIn(n, lo, hi) ==
    IF lo >= hi THEN lo
    ELSE LET mid == (lo + hi + 1) \div 2
         IN  IF mid * mid <= n THEN IsqrtIn(n, mid, hi) ELSE IsqrtIn(n, lo, mid - 1)

\* floor of the square root of n >= 0 (by bisection)
Isqrt(n) == IsqrtIn(n, 0, IF n < 46340 THEN n ELSE 46340)

\* np.sqrt of a finite value: NaN (with a RuntimeWarning) below zero
np_sqrt(v) == IF v < 0 THEN NaN ELSE Fin(Isqrt(v * XScale))

\* np.square
np_square(a) ==
    IF IsNaN(a) THEN NaN
    ELSE IF IsInf(a) THEN PosInf
    ELSE Fin((a[2] * a[2]) \div XScale)

\* ------------------------------------------------- scipy.stats.norm model

\* probability 1.0
PScale == 100
\* the table's points per unit of z
ZRes == 4
\* PScale * Phi(k / ZRes), k = 0 .. ZSat; Phi(-z) = 1 - Phi(z)
PhiTable == <<50, 60, 69, 77, 84, 89, 93, 96, 98, 99, 100>>
ZSat == Len(PhiTable) - 1

Phi(k) ==
    IF k >= ZSat THEN PScale
    ELSE IF k <= -ZSat THEN 0
    ELSE IF k >= 0 THEN PhiTable[k + 1]
    ELSE PScale - PhiTable[1 - k]

\* norm.cdf(x, loc=loc, scale=scale): NaN unless scale > 0 and loc is a number
norm_cdf(x, loc, scale) ==
    IF ~IsFin(loc) \/ ~IsFin(scale) THEN NaN
    ELSE IF scale[2] <= 0 THEN NaN
    ELSE Fin(Phi(CeilDiv((x - loc[2]) * ZRes, scale[2])))

\* the least table point whose cumulative probability reaches p, 0 < p < 1
Quantile(p) == CHOOSE k \in (1 - ZSat)..ZSat : Phi(k) >= p /\ Phi(k - 1) < p

\* norm.ppf(p, loc=loc, scale=scale) for scale > 0
norm_ppf(p, loc, scale) ==
    IF p < 0 \/ p > PScale THEN NaN
    ELSE IF p = 0 THEN NegInf
    ELSE IF p = PScale THEN PosInf
    ELSE Fin(loc + (scale * Quantile(p)) \div ZRes)

\* ------------------------------------------------------------ numpy model

\* np_arange with the stop value included when a step lands on it; C9 does
\* not hold of it
np_arange_closed(start, stop, step) ==
    LET n == (stop - start) \div step + 1
    IN  [i \in 1..(IF n > 0 THEN n ELSE 0) |-> start + (i - 1) * step]

\* np.arange(start, stop, step): ceil((stop - start) / step) points
np_arange(start, stop, step) ==
    LET n == CeilDiv(stop - start, step)
    IN  [i \in 1..(IF n > 0 THEN n ELSE 0) |-> start + (i - 1) * step]

RECURSIVE SumSeq(_)
SumSeq(s) == IF s = <<>> THEN 0 ELSE Head(s) + SumSeq(Tail(s))

AllFin(s) == \A i \in 1..Len(s) : IsFin(s[i])
AnyNaN(s) == \E i \in 1..Len(s) : IsNaN(s[i])
Vals(s) == [i \in 1..Len(s) |-> s[i][2]]

\* np.mean: NaN (with a RuntimeWarning) of an empty array
np_mean(s) ==
    IF Len(s) = 0 \/ AnyNaN(s) THEN NaN
    ELSE IF ~AllFin(s)
         THEN (IF \A i \in 1..Len(s) : IsFin(s[i]) \/ s[i] = PosInf THEN PosInf
               ELSE IF \A i \in 1..Len(s) : IsFin(s[i]) \/ s[i] = NegInf THEN NegInf
               ELSE NaN)
    ELSE Fin(SumSeq(Vals(s)) \div Len(s))

\* np.std (population): sqrt(mean(|x - mean(x)|^2)); NaN as soon as one
\* element is not finite (inf - inf)
np_std(s) ==
    IF Len(s) = 0 \/ ~AllFin(s) THEN NaN
    ELSE LET n == Len(s)
             v == Vals(s)
             sq == [i \in 1..n |-> v[i] * v[i]]
             s1 == SumSeq(v)
         IN  Fin(Isqrt((n * SumSeq(sq) - s1 * s1) \div (n * n)))

\* -------------------------------------------------------- solver_simplex

\* init_step = 0.00005 and step_sz = 0.0001 = 2 * init_step, at the model's
\* probability resolution
InitStep == 5
StepSz == 10

debug == FALSE

\* StartSample that reuses the start left behind by the previous direct call;
\* C7 does not hold of it
StartSample_stale(p_lo, p_hi) ==
    IF est.kind = "est" /\ est.trace.kind = "return" THEN est.trace.start
    ELSE p_lo + (InitStep * (p_hi - p_lo)) \div PScale

\* StartSample with the offset taken from the upper end of the window; C10
\* does not hold of it
StartSample_upper(p_lo, p_hi) == p_hi + (InitStep * (p_hi - p_lo)) \div PScale

\* start_sample = p_less_than_zero + initial_step * p_truncated_region
StartSample(p_lo, p_hi) == p_lo + (InitStep * (p_hi - p_lo)) \div PScale

\* p_values = np.arange(start_sample, 1, step_size)
PValues(start) == np_arange(start, PScale, StepSz)

\* get_sample_dist_values, with its intermediate values
Estimate(tmean, tsd, upper0) ==
    LET upper == IF debug THEN 1200 * XScale ELSE upper0
        p_less_than_zero == norm_cdf(0, tmean, tsd)
        p_greater_than_limit == norm_cdf(upper, tmean, tsd)
    IN  IF IsNaN(p_less_than_zero) \/ IsNaN(p_greater_than_limit)
        THEN \* np.arange(nan, 1, step): ValueError
             [kind |-> "raise", exc |-> "ValueError",
              p_lo |-> p_less_than_zero, p_hi |-> p_greater_than_limit,
              start |-> 0, p_values |-> <<>>, quantiles |-> <<>>,
              mean |-> NaN, sd |-> NaN]
        ELSE LET start_sample == StartSample(p_less_than_zero[2], p_greater_than_limit[2])
                 p_values == PValues(start_sample)
                 quantiles == [i \in 1..Len(p_values) |->
                                  norm_ppf(p_values[i], tmean[2], tsd[2])]
                 sampled_dist == [i \in 1..Len(p_values) |-> np_square(quantiles[i])]
             IN  [kind |-> "return", exc |-> "",
                  p_lo |-> p_less_than_zero, p_hi |-> p_greater_than_limit,
                  start |-> start_sample, p_values |-> p_values,
                  quantiles |-> quantiles,
                  mean |-> np_mean(sampled_dist), sd |-> np_std(sampled_dist)]

\* get_sample_dist_values(tmean, tsd, upper): what the caller sees
Returned(e) == [kind |-> e.kind, exc |-> e.exc, mean |-> e.mean, sd |-> e.sd]
get_sample_dist_values(tmean, tsd, upper) == Returned(Estimate(tmean, tsd, upper))

\* abs(target_mean - transformed_mean) + abs(target_sd - transformed_sd)
Objective(r, target_mean, target_sd) ==
    FAdd(FAbs(FSub(Fin(target_mean), r.mean)), FAbs(FSub(Fin(target_sd), r.sd)))

\* obj_fcn's outcome given the estimator's: its exception passes through
ObjOutcome(r, target_mean, target_sd) ==
    IF r.kind = "raise"
    THEN [kind |-> "raise", exc |-> r.exc, val |-> NaN]
    ELSE [kind |-> "return", exc |-> "", val |-> Objective(r, target_mean, target_sd)]

\* obj_fcn(fitted_normal_params, target_mean, target_sd, upper_limit)
obj_fcn(fitted_normal_params, target_mean, target_sd, upper_limit) ==
    ObjOutcome(get_sample_dist_values(fitted_normal_params[1], fitted_normal_params[2],
                                      upper_limit),
               target_mean, target_sd)

\* bounds_residue, xtol, ftol in fixed-point units: the smallest positive value
Residue == 1
XTol == 1
FTol == 1

\* Clip without the bounds, as Nelder-Mead of scipy before 1.7 ignores them
\* (src/solver_simplex.py line 14); C1 does not hold of it
Clip_ignored(a) == a

\* np.clip(x, lower_bound, upper_bound) with bounds (residue, None); NaN stays
Clip(a) == IF IsFin(a) /\ a[2] < Residue THEN Fin(Residue) ELSE a
ClipPoint(x) == <<Clip(x[1]), Clip(x[2])>>

\* initial_guess = [sqrt(target_mean), sqrt(target_sd)]
InitialGuess(t) == <<np_sqrt(t[1]), np_sqrt(t[2])>>

\* the initial simplex of scipy's Nelder-Mead around the clipped x0: x0 and,
\* per coordinate, x0 with that coordinate grown by 5% (nonzdelt), or set to
\* zdelt when it is 0; the simplex is clipped again
Grow(a) ==
    IF IsFin(a) THEN (IF a[2] # 0 THEN Fin((a[2] * 105) \div 100) ELSE Fin(1)) ELSE a
InitialSimplex(g) ==
    LET x0 == ClipPoint(g)
    IN  <<x0, ClipPoint(<<Grow(x0[1]), x0[2]>>), ClipPoint(<<x0[1], Grow(x0[2])>>)>>

\* np.argsort(fsim): ascending, NaN last, ties in index order
Before(a, b) == (~IsNaN(a) /\ IsNaN(b)) \/ FLt(a, b)
Rank(f, i) ==
    1 + Cardinality({j \in 1..Len(f) :
                        Before(f[j], f[i]) \/ (~Before(f[i], f[j]) /\ j < i)})
ArgSort(f) == [r \in 1..Len(f) |-> CHOOSE i \in 1..Len(f) : Rank(f, i) = r]
Take(s, ind) == [r \in 1..Len(ind) |-> s[ind[r]]]

\* the loop's break test: simplex within xatol and values within fatol
Converged(s, f) ==
    /\ \A j \in 2..3 : \A c \in 1..2 :
          (IF s[j][c] >= s[1][c] THEN s[j][c] - s[1][c] ELSE s[1][c] - s[j][c]) <= XTol
    /\ \A j \in 2..3 : FLe(FAbs(FSub(f[1], f[j])), Fin(FTol))

\* The trial points of one iteration of the Nelder-Mead loop (rho = 1,
\* chi = 2, psi = sigma = 1/2) on the sorted simplex s; the centroid xbar of
\* all vertices but the worst is Sum2(s) / 2.  Every trial point is clipped
\* to the bounds before it is evaluated.
Sum2(s) == [c \in 1..2 |-> s[1][c] + s[2][c]]
Bounded(x) == ClipPoint(<<Fin(x[1]), Fin(x[2])>>)
Reflected(s) == Bounded([c \in 1..2 |-> Sum2(s)[c] - s[3][c]])
Expanded(s) == Bounded([c \in 1..2 |-> (3 * Sum2(s)[c] - 4 * s[3][c]) \div 2])
Contracted(s) == Bounded([c \in 1..2 |-> (3 * Sum2(s)[c] - 2 * s[3][c]) \div 4])
ContractedInside(s) == Bounded([c \in 1..2 |-> (Sum2(s)[c] + 2 * s[3][c]) \div 4])
Shrunk(s, j) == Bounded([c \in 1..2 |-> (s[1][c] + s[j][c]) \div 2])

\* one evaluation func(x) of the objective by the optimizer, with the grid
\* start and grid size the estimator used
NoEval == [x |-> <<>>, kind |-> "none", exc |-> "", val |-> NaN, start |-> 0, n |-> 0]
Eval(x, t) ==
    LET e == Estimate(x[1], x[2], t[3])
    IN  [x |-> x, kind |-> e.kind, exc |-> e.exc,
         val |-> ObjOutcome(Returned(e), t[1], t[2]).val,
         start |-> e.start, n |-> Len(e.p_values)]

\* the second trial point of an iteration, given the reflected point's value
\* fxr and the simplex values f: expansion, none, or one of the contractions
SecondTrial(s, f, fxr) ==
    IF FLt(fxr, f[1]) THEN Expanded(s)
    ELSE IF FLt(fxr, f[2]) THEN <<>>
    ELSE IF FLt(fxr, f[3]) THEN Contracted(s)
    ELSE ContractedInside(s)

\* what the iteration does, given the values at the reflected point (fxr) and
\* at the second trial point (f2, when there is one)
Branch(f, fxr, f2) ==
    IF FLt(fxr, f[1]) THEN (IF FLt(f2, fxr) THEN "expand" ELSE "reflect")
    ELSE IF FLt(fxr, f[2]) THEN "reflect"
    ELSE IF FLt(fxr, f[3]) THEN (IF FLe(f2, fxr) THEN "contract" ELSE "shrink")
    ELSE (IF FLt(f2, f[3]) THEN "contract_inside" ELSE "shrink")

\* the simplex after an iteration, before it is sorted again
PointOf(e) == <<e.x[1][2], e.x[2][2]>>
Unsorted(s, f, how, r, e, sh) ==
    IF how = "shrink"
    THEN [x |-> <<s[1], PointOf(sh[1]), PointOf(sh[2])>>,
          f |-> <<f[1], sh[1].val, sh[2].val>>]
    ELSE IF how = "reflect"
    THEN [x |-> <<s[1], s[2], PointOf(r)>>, f |-> <<f[1], f[2], r.val>>]
    ELSE [x |-> <<s[1], s[2], PointOf(e)>>, f |-> <<f[1], f[2], e.val>>]

\* the first evaluation of a step that raised, if any
Raised(res) == {i \in 1..Len(res) : res[i].kind = "raise"}
FirstRaised(res) == CHOOSE i \in Raised(res) : \A j \in Raised(res) : i <= j

\* np.min(fsim): NaN as soon as one value is NaN
np_min(f) ==
    IF AnyNaN(f) THEN NaN
    ELSE CHOOSE a \in {f[i] : i \in 1..Len(f)} : \A i \in 1..Len(f) : FLe(a, f[i])

\* the evaluations of the objective made by the last step of the search
evals ==
    (IF xr.kind = "none" THEN <<>> ELSE <<xr>>)
        \o (IF x2.kind = "none" THEN <<>> ELSE <<x2>>) \o xs

None == [kind |-> "none"]

\* ------------------------------------------------------------- the inputs

TargetVals == {-XScale} \cup {k * XScale : k \in 0..MaxTarget}
Uppers == {-XScale, 0, XScale, MaxTarget * XScale}
Targets == TargetVals \X TargetVals \X Uppers

EstMeans == {(-3) * XScale, -XScale, 0, 1, XScale, 3 * XScale}
EstSds == {-XScale, 0, 1, XScale \div 2, XScale, 4 * XScale}
EstArgs == EstMeans \X EstSds \X Uppers

ObjArgs ==
    {3 * XScale, -XScale, 1} \X {XScale, 1} \X {0, 2 * XScale} \X {0, XScale}
        \X {0, MaxTarget * XScale}

\* the inputs of the repeated-call specification
RepeatEstArgs == {XScale, 3 * XScale} \X {1, XScale} \X {0, MaxTarget * XScale}
RepeatObjArgs == {<<XScale, XScale, 2 * XScale, XScale, MaxTarget * XScale>>}
RepeatTargets == {<<0, 0, 0>>, <<-XScale, XScale, XScale>>,
                  <<MaxTarget * XScale, XScale, MaxTarget * XScale>>,
                  <<MaxTarget * XScale, 0, 0>>}
\* the number of calls followed after the first
MaxCalls == 2

\* ------------------------------------------------------------ the actions

\* the first completed call is kept for comparison with the later ones
Record(call) ==
    first' = IF first.kind = "off" THEN first
             ELSE IF first.kind = "none" THEN call
             ELSE [first EXCEPT !.n = @ + 1]
CanCall == IF first.kind \in {"off", "none"} THEN TRUE ELSE first.n < MaxCalls

NoRun ==
    /\ pc' = "idle"
    /\ target' = <<>> /\ guess' = <<>> /\ sim' = <<>> /\ fsim' = <<>>
    /\ iterations' = 0 /\ fcalls' = 0 /\ branch' = ""
    /\ xr' = NoEval /\ x2' = NoEval /\ xs' = <<>>
    /\ fit' = None /\ ret' = None

InitRun ==
    /\ pc = "idle"
    /\ target = <<>> /\ guess = <<>> /\ sim = <<>> /\ fsim = <<>>
    /\ iterations = 0 /\ fcalls = 0 /\ branch = ""
    /\ xr = NoEval /\ x2 = NoEval /\ xs = <<>>
    /\ fit = None /\ ret = None

Init == est = None /\ objc = None /\ InitRun /\ first = [kind |-> "off"]

InitRepeat == est = None /\ objc = None /\ InitRun /\ first = None

Idle == pc \in {"idle", "done"}

\* a direct call get_sample_dist_values(tmean, tsd, upper)
CallEstimate(a) ==
    /\ Idle /\ CanCall
    /\ est' = [kind |-> "est", args |-> a, trace |-> Estimate(Fin(a[1]), Fin(a[2]), a[3])]
    /\ Record([kind |-> "est", args |-> a, out |-> Returned(est'.trace), n |-> 0])
    /\ objc' = None
    /\ NoRun

\* a direct call obj_fcn((mean, sd), target_mean, target_sd, upper)
CallObjective(a) ==
    /\ Idle
    /\ objc' = [kind |-> "obj", args |-> a,
                out |-> obj_fcn(<<Fin(a[1]), Fin(a[2])>>, a[3], a[4], a[5])]
    /\ est' = None
    /\ NoRun
    /\ UNCHANGED first

\* run_fitter(mean, sd, upper) up to its call of cd4_fitter
RunFitter(t) ==
    /\ Idle /\ CanCall
    /\ pc' = "cd4_fitter"
    /\ target' = t
    /\ guess' = <<>> /\ sim' = <<>> /\ fsim' = <<>>
    /\ iterations' = 0 /\ fcalls' = 0 /\ branch' = ""
    /\ xr' = NoEval /\ x2' = NoEval /\ xs' = <<>>
    /\ fit' = None /\ ret' = None
    /\ est' = None /\ objc' = None
    /\ UNCHANGED first

\* cd4_fitter up to the start of the Nelder-Mead loop: the initial guess, the
\* simplex around the clipped guess, and the objective at its vertices
Cd4FitterStart ==
    /\ pc = "cd4_fitter"
    /\ guess' = InitialGuess(target)
    /\ xr' = NoEval /\ x2' = NoEval
    /\ xs' = [j \in 1..3 |-> Eval(InitialSimplex(guess')[j], target)]
    /\ IF Raised(xs') # {}
       THEN /\ fit' = [kind |-> "raise", exc |-> xs'[FirstRaised(xs')].exc]
            /\ pc' = "fitted"
            /\ sim' = <<>> /\ fsim' = <<>>
            /\ fcalls' = FirstRaised(xs')
            /\ branch' = "raise"
       ELSE /\ sim' = Take([j \in 1..3 |-> PointOf(xs'[j])],
                           ArgSort([j \in 1..3 |-> xs'[j].val]))
            /\ fsim' = Take([j \in 1..3 |-> xs'[j].val],
                            ArgSort([j \in 1..3 |-> xs'[j].val]))
            /\ fcalls' = 3
            /\ branch' = "init"
            /\ pc' = "minimize"
            /\ fit' = None
    /\ iterations' = 0
    /\ UNCHANGED <<est, objc, target, ret, first>>

\* one iteration of the Nelder-Mead loop: reflect, then expand or contract,
\* then shrink when the contraction did not help; an exception of the
\* objective ends the search; the simplex is sorted again at the end
NelderMeadIterate ==
    /\ pc = "minimize"
    /\ fcalls < MaxFun /\ iterations < MaxIter
    /\ ~Converged(sim, fsim)
    /\ xr' = Eval(Reflected(sim), target)
    /\ x2' = IF xr'.kind = "raise" \/ SecondTrial(sim, fsim, xr'.val) = <<>> THEN NoEval
             ELSE Eval(SecondTrial(sim, fsim, xr'.val), target)
    /\ branch' = IF xr'.kind = "raise" \/ x2'.kind = "raise" THEN "raise"
                 ELSE Branch(fsim, xr'.val, x2'.val)
    /\ xs' = IF branch' = "shrink"
             THEN <<Eval(Shrunk(sim, 2), target), Eval(Shrunk(sim, 3), target)>>
             ELSE <<>>
    /\ fcalls' = fcalls + Len(evals')
    /\ IF Raised(evals') # {}
       THEN /\ fit' = [kind |-> "raise", exc |-> evals'[FirstRaised(evals')].exc]
            /\ pc' = "fitted"
            /\ UNCHANGED <<sim, fsim, iterations>>
       ELSE /\ sim' = Take(Unsorted(sim, fsim, branch', xr', x2', xs').x,
                           ArgSort(Unsorted(sim, fsim, branch', xr', x2', xs').f))
            /\ fsim' = Take(Unsorted(sim, fsim, branch', xr', x2', xs').f,
                            ArgSort(Unsorted(sim, fsim, branch', xr', x2', xs').f))
            /\ iterations' = iterations + 1
            /\ UNCHANGED <<fit, pc>>
    /\ UNCHANGED <<est, objc, target, guess, ret, first>>

\* the loop ends (tolerances met, or a budget used up) and cd4_fitter returns
\* (fitted_mean, fitted_sd, min_obj_fcn_value, output)
Cd4FitterReturn ==
    /\ pc = "minimize"
    /\ ~(fcalls < MaxFun /\ iterations < MaxIter) \/ Converged(sim, fsim)
    /\ LET warnflag == IF fcalls >= MaxFun THEN 1 ELSE IF iterations >= MaxIter THEN 2 ELSE 0
       IN  fit' = [kind |-> "return", mean |-> sim[1][1], sd |-> sim[1][2],
                   fun |-> np_min(fsim), status |-> warnflag, success |-> (warnflag = 0),
                   nit |-> iterations, nfev |-> fcalls]
    /\ pc' = "fitted"
    /\ UNCHANGED <<est, objc, target, guess, sim, fsim, iterations, fcalls, xr, x2, xs,
                   branch, ret, first>>

\* what cd4_fitter's caller can compare between two runs
FitOutcome(f) ==
    IF f.kind = "raise" THEN <<"raise", f.exc>> ELSE <<"return", f.mean, f.sd, f.fun>>

\* run_fitter after cd4_fitter: the inner handler returns (-1, e); otherwise
\* the result is printed, logged and returned; an exception of that wrapper
\* code reaches the outer handler, which logs it and returns nothing
RunFitterReturn(wrapperRaises) ==
    /\ pc = "fitted"
    /\ ret' = IF fit.kind = "raise" THEN [kind |-> "failure", code |-> -1, exc |-> fit.exc]
              ELSE IF wrapperRaises THEN [kind |-> "None"]
              ELSE [kind |-> "result", value |-> fit]
    /\ Record([kind |-> "fit", args |-> target, out |-> FitOutcome(fit), n |-> 0])
    /\ pc' = "done"
    /\ UNCHANGED <<est, objc, target, guess, sim, fsim, iterations, fcalls, xr, x2, xs,
                   branch, fit>>

Next ==
    \/ \E a \in EstArgs : CallEstimate(a)
    \/ \E a \in ObjArgs : CallObjective(a)
    \/ \E t \in Targets : RunFitter(t)
    \/ Cd4FitterStart
    \/ NelderMeadIterate
    \/ Cd4FitterReturn
    \/ \E w \in BOOLEAN : RunFitterReturn(w)

Spec == Init /\ [][Next]_vars

NextRepeat ==
    \/ \E a \in RepeatEstArgs : CallEstimate(a)
    \/ \E a \in RepeatObjArgs : CallObjective(a)
    \/ \E t \in RepeatTargets : RunFitter(t)
    \/ Cd4FitterStart
    \/ NelderMeadIterate
    \/ Cd4FitterReturn
    \/ \E w \in BOOLEAN : RunFitterReturn(w)

SpecRepeat == InitRepeat /\ [][NextRepeat]_vars

\* ------------------------------------------------------------- the claims

Started == pc \in {"minimize", "fitted", "done"}

\* C1 (as amended): in every run of cd4_fitter that does not raise, every
\* point at which the search evaluates the objective (the clipped initial
\* guess and its simplex included), every vertex of the simplex, and the
\* returned best-fit mean and sd are at least bounds_residue, hence > 0.
C1_BoundsRespected ==
    (Started /\ fit.kind # "raise") =>
        /\ Residue > 0
        /\ \A i \in 1..Len(evals) : \A c \in 1..2 :
              IsFin(evals[i].x[c]) /\ evals[i].x[c][2] >= Residue
        /\ \A j \in 1..Len(sim) : \A c \in 1..2 : sim[j][c] >= Residue
        /\ fit.kind = "return" => fit.mean >= Residue /\ fit.sd >= Residue
        /\ ret.kind = "result" => ret.value.mean >= Residue /\ ret.value.sd >= Residue

\* C1 witness: a search of several iterations returns a point on the bound
C1_Witness ==
    /\ pc = "done" /\ ret.kind = "result"
    /\ fit.mean = Residue /\ iterations > 1 /\ target[1] > 0

\* C1 (as stated): the same, and the initial guess itself is > 0 as well
C1_InitialGuessToo ==
    /\ C1_BoundsRespected
    /\ fit.kind = "return" => \A c \in 1..2 : IsFin(guess[c]) /\ guess[c][2] > 0

\* C2 (as stated): run_fitter ends in one of two ways: with cd4_fitter's
\* result unchanged when cd4_fitter returned, with (-1, e) carrying
\* cd4_fitter's exception when it raised.
C2_TwoOutcomes ==
    pc = "done" =>
        IF fit.kind = "raise"
        THEN ret = [kind |-> "failure", code |-> -1, exc |-> fit.exc]
        ELSE ret = [kind |-> "result", value |-> fit]

\* the search ended because a budget ran out
BudgetExhausted ==
    /\ pc \in {"fitted", "done"}
    /\ sim # <<>>
    /\ ~(fcalls < MaxFun /\ iterations < MaxIter)

\* C3 (as stated): when the search ends on its budget, cd4_fitter returns the
\* best vertex with a false success flag and run_fitter returns that result.
C3_NonConvergencePassedThrough ==
    BudgetExhausted =>
        /\ fit.kind = "return"
        /\ ~fit.success
        /\ fit.mean = sim[1][1] /\ fit.sd = sim[1][2]
        /\ pc = "done" => ret = [kind |-> "result", value |-> fit]

\* C4 (as stated): every quantile sampled by get_sample_dist_values lies in
\* [0, upper], i.e. every grid probability lies in [CDF(0), CDF(upper)].
C4_SamplesWithinTruncation ==
    (est.kind = "est" /\ est.trace.kind = "return") =>
        \A i \in 1..Len(est.trace.p_values) :
            /\ FLe(Fin(0), est.trace.quantiles[i])
            /\ FLe(est.trace.quantiles[i], Fin(est.args[3]))
            /\ est.trace.p_lo[2] <= est.trace.p_values[i]
            /\ est.trace.p_values[i] <= est.trace.p_hi[2]

\* C5 (as stated): a fit with upper <= 0 ends in the failure indicator:
\* cd4_fitter raises and run_fitter returns (-1, e).
C5_DegenerateTargetFails ==
    (pc \in {"fitted", "done"} /\ target[3] <= 0) =>
        /\ fit.kind = "raise"
        /\ pc = "done" => ret.kind = "failure"

\* C6 (as stated): get_sample_dist_values raises or returns two finite
\* moments; it never returns NaN or an infinity.
C6_FiniteOrRaises ==
    est.kind = "est" =>
        \/ est.trace.kind = "raise"
        \/ IsFin(est.trace.mean) /\ IsFin(est.trace.sd)

C8_ObjectiveValue ==
    (objc.kind = "obj" /\ objc.out.kind = "return") =>
        LET a == objc.args
            m == get_sample_dist_values(Fin(a[1]), Fin(a[2]), a[5])
        IN  /\ objc.out.val = FAdd(FAbs(FSub(Fin(a[3]), m.mean)), FAbs(FSub(Fin(a[4]), m.sd)))
            /\ FLe(Fin(0), objc.out.val)
            /\ (objc.out.val = Fin(0)) <=> (m.mean = Fin(a[3]) /\ m.sd = Fin(a[4]))

PositiveCalls ==
    (IF est.kind = "est" /\ est.args[1] > 0 /\ est.args[2] > 0
     THEN {[kind |-> est.trace.kind, start |-> est.trace.start,
            n |-> Len(est.trace.p_values), upper |-> est.args[3]]}
     ELSE {})
    \cup {[kind |-> evals[i].kind, start |-> evals[i].start, n |-> evals[i].n,
           upper |-> target[3]] :
             i \in {j \in 1..Len(evals) :
                       /\ IsFin(evals[j].x[1]) /\ evals[j].x[1][2] > 0
                       /\ IsFin(evals[j].x[2]) /\ evals[j].x[2][2] > 0}}

\* C10 (as amended): with tmean > 0 and tsd > 0 the estimator does not raise
\* and 0 <= start <= 1/2 + init_step / 2 < 1 for every upper, so the grid has
\* at least one point.
C10_StartBelowOne ==
    \A c \in PositiveCalls :
        /\ c.kind = "return"
        /\ 0 <= c.start
        /\ 2 * PScale * c.start <= PScale * PScale + InitStep * PScale
        /\ c.start < PScale
        /\ c.n >= 1

\* C10 witness: such a call with upper <= 0
C10_Witness == \E c \in PositiveCalls : c.upper <= 0 /\ c.n >= 1 /\ c.start > 0

\* C10 (as stated): with tmean > 0 and tsd > 0 the start is below 1/2.  CDF(0)
\* is below 1/2 only by less than the probability resolution when tmean is
\* small against tsd, so the statement is read as start <= 1/2, which is all
\* the resolution can tell from start < 1/2.
C10_StartBelowHalf ==
    \A c \in PositiveCalls : 0 <= c.start /\ 2 * c.start <= PScale /\ c.n >= 1
====
